---- MODULE Spec2Model ----
(***************************************************************************)
(* Model of profilesync: the mirror engine (profilesync/sync.py), the git  *)
(* adapter (profilesync/git.py), the command-line flows                    *)
(* (profilesync/commands.py) and the Textual screens (profilesync/tui.py). *)
(*                                                                         *)
(* One profile set ("orcaslicer") is enabled.  A file content is a number  *)
(* 1..MaxContent, 0 stands for "no such file".  sha256_file is injective   *)
(* on the contents of the model, so two files have the same hash exactly   *)
(* when their contents are equal.                                          *)
(*                                                                         *)
(* A commit is modelled by its whole history: a sequence of commit records *)
(* from the root commit to the commit itself.  Ancestry is the prefix      *)
(* order, the merge base of two commits is their longest common prefix.    *)
(***************************************************************************)
EXTENDS Integers, Sequences, FiniteSets, TLC

\* ---- bounds -------------------------------------------------------------
MaxContent == 2
MaxHist == 3
MaxOtherPush == 1
MaxVersions == 2
MaxRuns == 2

\* ---- paths and contents --------------------------------------------------
\* Relative paths below a profile directory, in the order rglob yields them:
\* <profile-type>/<file>.json, and a JSON file that lies in the directory
\* itself.
RelSeq == << <<"filament", "a.json">>, <<"process", "b.json">>, <<"c.json">> >>

Rels == {RelSeq[i] : i \in 1..Len(RelSeq)}

\* The directories that may be configured for the profile set.
Dirs == {1, 2}

Contents == 1..MaxContent

\* The text of a file in which git left conflict markers.
ConflictText == -1

\* A tree may hold a file whose committed text still has conflict markers.
Tree == [Rels -> (0..MaxContent) \cup {ConflictText}]

EmptyTree == [r \in Rels |-> 0]

\* ChangeEntry (src, dst); src = None marks a deletion.
None == <<>>

SameHash(a, b) == a = b

VARIABLES
    runs,       \* number of flows started so far (commands and menu choices)
    cap,        \* cap[p]: the highest content any machine writes to path p
    cfgDirs,    \* Config.slicer_profile_dirs[slicer]: sequence of directories
    dirs,       \* the slicer directories on disk: [Dirs -> [Rels -> content]]
    repo,       \* the local clone (record, see InitRepo)
    remote,     \* history of the primary branch on the server (<<>>: none)
    exported,   \* SyncApp.exported / cmd_sync's exported: sequence of entries
    pc,         \* position of the session
    ses,        \* the session's bookkeeping (record, see NoSession)
    extra       \* TUI workers still running that no screen waits for

vars == <<runs, cap, cfgDirs, dirs, repo, remote, exported, pc, ses, extra>>

\* ---- mirror engine (sync.py) ---------------------------------------------

\* d.rglob("*.json") for a configured directory d
SrcFiles(fs, d) == SelectSeq(RelSeq, LAMBDA r : fs[d][r] # 0)

\* One configured directory of export_from_slicers_to_repo: the inner loop.
\* st = [w |-> working tree, copied |-> entries, expected |-> repo files]
RECURSIVE ExportDir(_, _, _, _)
ExportDir(fs, d, files, st) ==
    IF files = <<>> THEN st
    ELSE LET rel == Head(files)
             same == st.w[rel] # 0 /\ SameHash(fs[d][rel], st.w[rel])
             st2 == [w |-> IF same THEN st.w
                           ELSE [st.w EXCEPT ![rel] = fs[d][rel]],
                     copied |-> IF same THEN st.copied
                                ELSE Append(st.copied,
                                            [src |-> <<d, rel>>, dst |-> rel]),
                     expected |-> st.expected \cup {rel}]
         IN ExportDir(fs, d, Tail(files), st2)

\* d.exists(): the directories on disk are those fs tells the content of.
DirExists(fs, d) == d \in DOMAIN fs

\* The loop over the configured directories; one that is not on disk is
\* passed over.
RECURSIVE ExportDirs(_, _, _)
ExportDirs(fs, ds, st) ==
    IF ds = <<>> THEN st
    ELSE ExportDirs(fs, Tail(ds),
                    IF DirExists(fs, Head(ds))
                    THEN ExportDir(fs, Head(ds), SrcFiles(fs, Head(ds)), st)
                    ELSE st)

\* DeleteStale that deletes nothing and reports nothing.
DeleteStaleSilent(files, st) == st

\* The deletion loop of export_from_slicers_to_repo.
RECURSIVE DeleteStale(_, _)
DeleteStale(files, st) ==
    IF files = <<>> THEN st
    ELSE LET rel == Head(files)
             stale == st.w[rel] # 0 /\ rel \notin st.expected
             st2 == IF stale
                    THEN [st EXCEPT !.w[rel] = 0,
                                    !.copied = Append(@, [src |-> None,
                                                          dst |-> rel])]
                    ELSE st
         IN DeleteStale(Tail(files), st2)

\* export_from_slicers_to_repo reading the first configured directory only.
ExportFromSlicersToRepoFirstDir(ds, fs, w) ==
    LET st == ExportDirs(fs, <<Head(ds)>>, [w |-> w, copied |-> <<>>, expected |-> {}])
        fin == DeleteStale(RelSeq, st)
    IN [w |-> fin.w, copied |-> fin.copied]

\* export_from_slicers_to_repo(cfg): [w |-> new working tree, copied |-> list]
ExportFromSlicersToRepo(ds, fs, w) ==
    LET st == ExportDirs(fs, ds, [w |-> w, copied |-> <<>>, expected |-> {}])
        fin == DeleteStale(RelSeq, st)
    IN [w |-> fin.w, copied |-> fin.copied]

\* export_selected_to_repo(cfg, selected_files): the new working tree
RECURSIVE ExportSelectedToRepo(_, _, _)
ExportSelectedToRepo(fs, sel, w) ==
    IF sel = <<>> THEN w
    ELSE LET e == Head(sel)
             w2 == IF e.src = None
                   THEN [w EXCEPT ![e.dst] = 0]
                   ELSE LET c == IF e.src[1] = 0 THEN w[e.dst]
                                 ELSE fs[e.src[1]][e.src[2]]
                        IN IF w[e.dst] # 0 /\ SameHash(c, w[e.dst])
                           THEN w
                           ELSE [w EXCEPT ![e.dst] = c]
         IN ExportSelectedToRepo(fs, Tail(sel), w2)

\* ---- git adapter (git.py) -------------------------------------------------

Min(a, b) == IF a < b THEN a ELSE b

HeadTree(h) == IF h = <<>> THEN EmptyTree ELSE h[Len(h)].tree

\* git merge-base --is-ancestor a b
IsAncestor(a, b) == Len(a) <= Len(b) /\ SubSeq(b, 1, Len(a)) = a

\* Length of the merge base (longest common prefix) of two histories.
CommonLen(a, b) ==
    CHOOSE k \in 0..Min(Len(a), Len(b)) :
        /\ SubSeq(a, 1, k) = SubSeq(b, 1, k)
        /\ \A j \in (k + 1)..Min(Len(a), Len(b)) :
               SubSeq(a, 1, j) # SubSeq(b, 1, j)

\* The bootstrap commit of initialize_empty_repo ("Initial setup").
BootCommit(who) == [tree |-> EmptyTree, by |-> who, boot |-> TRUE]

SyncCommit(t, who) == [tree |-> t, by |-> who, boot |-> FALSE]

NoRebase == [active |-> FALSE, orig |-> <<>>, origDetached |-> FALSE,
             todo |-> <<>>, unmerged |-> {}]

\* git status --porcelain is non-empty
GitStatusDirty(r) == r.wt # HeadTree(r.head) \/ r.rb.unmerged # {}

\* Paths present in the working tree and unknown to HEAD (untracked).
Untracked(r) == {p \in Rels : HeadTree(r.head)[p] = 0 /\ r.wt[p] # 0}

\* git rev-parse --verify origin/main succeeds
OriginMainExists(r) == r.primary = "main" /\ r.tracking # <<>>

\* git_has_commits
GitHasCommits(r) == r.head # <<>>

\* A new commit on HEAD; an attached HEAD moves its branch.
Advance(r, h) ==
    [r EXCEPT !.head = h, !.tip = IF r.detached THEN r.tip ELSE h]

\* git_commit_if_needed: [r |-> repo, committed |-> BOOLEAN]
GitCommitIfNeeded(r, who) ==
    IF ~GitStatusDirty(r) THEN [r |-> r, committed |-> FALSE]
    ELSE [r |-> [Advance(r, Append(r.head, SyncCommit(r.wt, who)))
                    EXCEPT !.rb.unmerged = {}],
          committed |-> TRUE]

\* GitResetHardClean that leaves the working tree as it is.
GitResetHardCleanKeeping(r) == r

\* git reset --hard HEAD; git clean -fd  (also: git checkout HEAD -- . ; clean)
GitResetHardClean(r) ==
    [r EXCEPT !.wt = HeadTree(r.head), !.rb.unmerged = {}]

\* The commits of h after its first k, each with the tree of its parent.
PickItems(h, k) ==
    [i \in 1..(Len(h) - k) |->
        [base |-> HeadTree(SubSeq(h, 1, k + i - 1)), c |-> h[k + i]]]

\* Three-way merge of one path; ConflictPaths are the paths both sides changed.
ConflictPaths(base, ours, theirs) ==
    {p \in Rels : theirs[p] # base[p] /\ ours[p] # base[p] /\ ours[p] # theirs[p]}

Merge3(base, ours, theirs) ==
    [p \in Rels |->
        IF theirs[p] = base[p] THEN ours[p]
        ELSE IF ours[p] = base[p] \/ ours[p] = theirs[p] THEN theirs[p]
        ELSE ConflictText]

\* Replays the picks of a rebase on top of cur until one conflicts.
RECURSIVE Replay(_, _)
Replay(cur, todo) ==
    IF todo = <<>>
    THEN [ok |-> TRUE, head |-> cur, wt |-> HeadTree(cur), todo |-> <<>>,
          unmerged |-> {}]
    ELSE LET it == Head(todo)
             ours == HeadTree(cur)
             conf == ConflictPaths(it.base, ours, it.c.tree)
             m == Merge3(it.base, ours, it.c.tree)
         IN IF conf = {}
            THEN Replay(IF m = ours THEN cur
                        ELSE Append(cur, [it.c EXCEPT !.tree = m]),
                        Tail(todo))
            ELSE [ok |-> FALSE, head |-> cur, wt |-> m, todo |-> Tail(todo),
                  unmerged |-> conf]

\* The state a finished or stopped replay leaves; untracked files stay.
AfterReplay(r, orig, origDetached, res) ==
    LET keep == Untracked(r)
        w == [p \in Rels |-> IF p \in keep THEN r.wt[p] ELSE res.wt[p]]
    IN IF res.ok
       THEN [r EXCEPT !.head = res.head,
                      !.tip = IF origDetached THEN r.tip ELSE res.head,
                      !.detached = origDetached,
                      !.wt = w,
                      !.rb = NoRebase]
       ELSE [r EXCEPT !.head = res.head,
                      !.detached = TRUE,
                      !.wt = w,
                      !.rb = [active |-> TRUE, orig |-> orig,
                              origDetached |-> origDetached,
                              todo |-> res.todo, unmerged |-> res.unmerged]]

\* git rebase origin/main on a tree without tracked changes:
\* [r |-> repo, raised |-> the command failed]
GitRebase(r) ==
    LET up == r.tracking
        k == CommonLen(r.head, up)
    IN IF r.rb.active THEN [r |-> r, raised |-> TRUE]
       ELSE IF IsAncestor(up, r.head) THEN [r |-> r, raised |-> FALSE]
       ELSE IF \E p \in Untracked(r) :
                   \E j \in 1..Len(up) : up[j].tree[p] # 0
       THEN [r |-> r, raised |-> TRUE]
       ELSE LET res == Replay(up, PickItems(r.head, k))
            IN [r |-> AfterReplay(r, r.head, r.detached, res),
                raised |-> ~res.ok]

\* git rebase --continue after git add -A
GitRebaseContinue(r) ==
    LET cur == IF r.wt = HeadTree(r.head) THEN r.head
               ELSE Append(r.head, SyncCommit(r.wt, "me"))
        res == Replay(cur, r.rb.todo)
        r1 == [r EXCEPT !.head = cur, !.wt = HeadTree(cur), !.rb.unmerged = {}]
    IN [r |-> AfterReplay(r1, r.rb.orig, r.rb.origDetached, res),
        raised |-> ~res.ok]

\* git rebase --abort
GitRebaseAbort(r) ==
    IF ~r.rb.active THEN r
    ELSE [r EXCEPT !.head = r.rb.orig,
                   !.detached = r.rb.origDetached,
                   !.wt = HeadTree(r.rb.orig),
                   !.rb = NoRebase]

\* git stash push: tracked changes are saved and reverted, untracked stay.
GitStashPush(r) ==
    LET t == {p \in Rels : HeadTree(r.head)[p] # 0 /\ r.wt[p] # HeadTree(r.head)[p]}
    IN IF t = {} THEN r
       ELSE [r EXCEPT !.stash = <<[base |-> HeadTree(r.head),
                                   vals |-> [p \in t |-> r.wt[p]]]>> \o @,
                      !.wt = [p \in Rels |-> IF p \in t THEN HeadTree(r.head)[p]
                                             ELSE r.wt[p]]]

\* git stash pop, and git stash drop when the pop fails: with unmerged
\* paths in the index the pop refuses to run; a pop whose merge conflicts
\* keeps the entry, which the drop then removes, and leaves each conflicting
\* file unmerged: with the markers of both contents, or, when one side
\* deleted the file, with the content of the side that changed it.
GitStashPopOrDrop(r) ==
    IF r.stash = <<>> THEN r
    ELSE LET e == Head(r.stash)
             clash == {p \in DOMAIN e.vals : r.wt[p] # e.base[p] /\ r.wt[p] # e.vals[p]}
         IN IF r.rb.active
            THEN [r EXCEPT !.stash = Tail(@)]
            ELSE [r EXCEPT !.stash = Tail(@),
                           !.rb.unmerged = @ \cup clash,
                           !.wt = [p \in Rels |-> IF p \in clash /\ e.vals[p] = 0
                                                  THEN r.wt[p]
                                                  ELSE IF p \in clash /\ r.wt[p] # 0
                                                  THEN ConflictText
                                                  ELSE IF p \in DOMAIN e.vals
                                                  THEN e.vals[p] ELSE r.wt[p]]]

\* git_pull_rebase without the check that origin/main exists.
GitPullRebaseUnverified(r, rem, fetchOk) ==
    IF ~fetchOk THEN [r |-> r, raised |-> TRUE]
    ELSE LET r1 == [r EXCEPT !.tracking = rem]
         IN IF r1.head = r1.tracking THEN [r |-> r1, raised |-> FALSE]
            ELSE IF GitStatusDirty(r1)
            THEN LET res == GitRebase(GitStashPush(r1))
                 IN [r |-> GitStashPopOrDrop(res.r), raised |-> res.raised]
            ELSE GitRebase(r1)

\* git_pull_rebase: [r |-> repo, raised |-> CalledProcessError]
GitPullRebase(r, rem, fetchOk) ==
    IF ~fetchOk THEN [r |-> r, raised |-> TRUE]
    ELSE LET r1 == [r EXCEPT !.tracking = rem]
         IN IF ~OriginMainExists(r1) THEN [r |-> r1, raised |-> FALSE]
            ELSE IF r1.head = r1.tracking THEN [r |-> r1, raised |-> FALSE]
            ELSE IF GitStatusDirty(r1)
            THEN LET res == GitRebase(GitStashPush(r1))
                 IN [r |-> GitStashPopOrDrop(res.r), raised |-> res.raised]
            ELSE GitRebase(r1)

\* git_has_conflicts
GitHasConflicts(r) == r.rb.active \/ r.rb.unmerged # {}

\* git_get_conflicted_files, in status order
GitGetConflictedFiles(r) == SelectSeq(RelSeq, LAMBDA p : p \in r.rb.unmerged)

\* git checkout <commit> / git checkout <branch>: local changes are carried
\* over where the two trees agree; a changed file that differs between the
\* trees makes the checkout fail.  [r |-> repo, raised |-> BOOLEAN]
GitCheckout(r, target, asBranch) ==
    LET cur == HeadTree(r.head)
        new == HeadTree(target)
        blocked == {p \in Rels : cur[p] # new[p] /\ r.wt[p] # cur[p] /\ r.wt[p] # 0}
    IN IF blocked # {} \/ r.rb.unmerged # {}
       THEN [r |-> r, raised |-> TRUE]
       ELSE [r |-> [r EXCEPT !.head = target,
                             !.detached = ~asBranch,
                             !.wt = [p \in Rels |-> IF cur[p] = new[p] THEN r.wt[p]
                                                    ELSE new[p]]],
             raised |-> FALSE]

\* git_checkout_commit
GitCheckoutCommit(r, h) == GitCheckout(r, h, FALSE)

\* git_checkout_branch(name)
GitCheckoutBranch(r, name) ==
    IF name # r.primary THEN [r |-> r, raised |-> TRUE]
    ELSE GitCheckout(r, r.tip, TRUE)

\* The "try main, then master, else pass" block of the pull and pick flows.
EnsureOnBranch(r) ==
    LET a == GitCheckoutBranch(r, "main")
    IN IF ~a.raised THEN a.r ELSE GitCheckoutBranch(r, "master").r

\* git_list_commits(limit=20): the histories of HEAD's commits, newest first
GitListCommits(r) == [i \in 1..Len(r.head) |-> SubSeq(r.head, 1, Len(r.head) + 1 - i)]

\* git push -u origin <name>: TRUE when the server accepts the branch
PushAccepted(r, rem, name, netOk) ==
    netOk /\ name = r.primary /\ IsAncestor(rem, r.tip)

\* The local and server state after an accepted push of the primary branch.
AfterPushRepo(r) == [r EXCEPT !.tracking = r.tip, !.upstream = TRUE]

\* ---- more of the mirror engine (sync.py) ----------------------------------

\* import_from_repo_to_slicers that makes the directory equal to the
\* repository tree, deleting what the tree does not hold.
ImportFromRepoToSlicersMirroring(ds, fs, w) ==
    IF ds = <<>> THEN fs
    ELSE [fs EXCEPT ![ds[1]] = w]

\* import_from_repo_to_slicers: the slicer directories after the import
ImportFromRepoToSlicers(ds, fs, w) ==
    IF ds = <<>> THEN fs
    ELSE [fs EXCEPT ![ds[1]] =
             [p \in Rels |-> IF w[p] = 0 THEN fs[ds[1]][p]
                             ELSE IF fs[ds[1]][p] # 0 /\ SameHash(w[p], fs[ds[1]][p])
                                  THEN fs[ds[1]][p]
                                  ELSE w[p]]]

\* collect_server_profiles that looks for the local file in the last
\* configured directory.
CollectServerProfilesLastDir(ds, fs, w) ==
    LET files == SelectSeq(RelSeq, LAMBDA p : w[p] # 0)
    IN [i \in 1..Len(files) |->
          [rel |-> files[i],
           has_local |-> ds # <<>> /\ fs[ds[Len(ds)]][files[i]] # 0,
           matches_local |-> /\ ds # <<>>
                             /\ fs[ds[Len(ds)]][files[i]] # 0
                             /\ SameHash(w[files[i]], fs[ds[Len(ds)]][files[i]])]]

\* collect_server_profiles: one record per repository file, in rglob order
CollectServerProfiles(ds, fs, w) ==
    LET files == SelectSeq(RelSeq, LAMBDA p : w[p] # 0)
    IN [i \in 1..Len(files) |->
          [rel |-> files[i],
           has_local |-> ds # <<>> /\ fs[ds[1]][files[i]] # 0,
           matches_local |-> /\ ds # <<>>
                             /\ fs[ds[1]][files[i]] # 0
                             /\ SameHash(w[files[i]], fs[ds[1]][files[i]])]]

\* import_selected_profiles: the slicer directories after the import
RECURSIVE ImportSelectedProfiles(_, _, _, _)
ImportSelectedProfiles(ds, fs, w, sel) ==
    IF sel = <<>> \/ ds = <<>> THEN fs
    ELSE LET p == Head(sel).rel
             fs2 == IF fs[ds[1]][p] # 0 /\ SameHash(w[p], fs[ds[1]][p])
                    THEN fs
                    ELSE [fs EXCEPT ![ds[1]][p] = w[p]]
         IN ImportSelectedProfiles(ds, fs2, w, Tail(sel))

\* rebuild_exported_from_git: entries for the paths git status reports
RebuildExportedFromGit(ds, fs, r) ==
    LET changed == SelectSeq(RelSeq, LAMBDA p : r.wt[p] # HeadTree(r.head)[p])
        withSrc(p) == SelectSeq(ds, LAMBDA d : fs[d][p] # 0)
        entry(p) == IF r.wt[p] = 0 THEN [src |-> None, dst |-> p]
                    ELSE IF withSrc(p) # <<>>
                         THEN [src |-> <<withSrc(p)[1], p>>, dst |-> p]
                         ELSE [src |-> <<0, p>>, dst |-> p]
    IN [i \in 1..Len(changed) |-> entry(changed[i])]

\* The re-export of _after_push and _execute_pull:
\* [w |-> working tree, exported |-> the session's new change-set]
ReExport(ds, fs, r) ==
    LET x == ExportFromSlicersToRepo(ds, fs, r.wt)
        r2 == [r EXCEPT !.wt = x.w]
    IN [w |-> x.w,
        exported |-> IF x.copied # <<>> THEN x.copied
                     ELSE RebuildExportedFromGit(ds, fs, r2)]

\* ---- the session --------------------------------------------------------
\* A world is the record of everything a handler reads and writes:
\* [repo, remote, dirs, exported, ses, pc].

\* None, where the code holds an index or None.
NoIndex == -1

\* The SelectionList of a screen and the screen's _range_anchor: option i
\* has the value i, for i in 0..count-1.
NoList == [count |-> 0, selected |-> {}, highlighted |-> NoIndex, anchor |-> NoIndex]

NoSession ==
    [mode |-> "none",       \* "cli": sync --action ..., "tui": the Textual app
     thenPull |-> FALSE,    \* full sync: a pull follows a successful push
     cont |-> "none",       \* the flow that called interactive_resolve_conflicts
     result |-> -1,         \* exit status of cmd_sync
     ok |-> FALSE,          \* the success flag a TUI worker hands to its callback
     log |-> {},            \* what the flow did and asked so far
     dirs0 |-> <<>>,        \* the slicer directories when the flow started
     pre |-> <<>>,          \* <<HEAD, working tree>> when git_pull_rebase was called
     sel |-> <<>>,          \* indices confirmed in the selection list
     offer |-> <<>>,        \* PullScreen._profiles / PickVersionScreen._commits
     scan |-> <<>>,         \* the change-set PushScreen listed when it was composed
     list |-> NoList]       \* the selection list, where its key bindings are followed

Log(w, e) == [w EXCEPT !.ses.log = @ \cup {e}]

LogAll(w, es) == [w EXCEPT !.ses.log = @ \cup es]

\* What a call of git_pull_rebase did, for the record of the flow: the call
\* itself, a rebase that moved HEAD or stopped, a stop on unmerged paths.
RebaseEvents(r, p, caller) ==
    {"pull_rebase"}
    \cup (IF caller = "push" THEN {"push_rebase"} ELSE {})
    \cup (IF p.r.head # r.head \/ (p.r.rb.active /\ ~r.rb.active)
          THEN {"rebased"} \cup (IF caller = "push" THEN {"push_rebased"} ELSE {})
          ELSE {})
    \cup (IF p.raised /\ p.r.rb.unmerged # {} /\ ~r.rb.active
          THEN {"rebase_stopped"} ELSE {})
    \cup (IF p.raised /\ caller = "push" THEN {"push_rebase_failed"} ELSE {})
    \cup (IF caller = "pull" /\ r.detached /\ ~r.rb.active
          THEN {"pull_detached"} ELSE {})

\* git fetch --all of git_pull_rebase failed, for the record of the flow.
FetchEvents(net) == IF net.fetch THEN {} ELSE {"fetch_failed"}

\* What the push flow finds when it starts, for the record of the flow:
\* HEAD is the server's head and nothing is uncommitted; the server has
\* commits that are not ancestors of HEAD.
PushStartEvents(w) ==
    (IF w.repo.head = w.remote /\ ~GitStatusDirty(w.repo)
     THEN {"synced_at_start"} ELSE {})
    \cup (IF ~IsAncestor(w.remote, w.repo.head) THEN {"diverged"} ELSE {})

\* cmd_sync returns: the session is over with this exit status.
Return(w, code) == [w EXCEPT !.pc = "done", !.ses.result = code]

\* git rev-parse --abbrev-ref --symbolic-full-name @{u} succeeds: HEAD is on
\* a branch that has an upstream; on a detached HEAD it fails.
HasUpstream(r) == r.upstream /\ ~r.detached

\* The push commands of do_push and PushScreen._execute_push: git push when
\* @{u} resolves, else push -u origin main, else push -u origin <current
\* branch>.  TRUE when the commands ended without error; what they push is
\* the local branch, wherever HEAD is.
PushOk(r, rem, net) ==
    LET first == PushAccepted(r, rem, "main", net.push)
        \* git branch --show-current prints nothing on a detached HEAD
        second == ~r.detached /\ PushAccepted(r, rem, r.primary, net.push)
        plain == PushAccepted(r, rem, r.primary, net.push)
    IN IF HasUpstream(r) THEN plain ELSE (first \/ second)

\* What the push commands did, for the record of the flow: a push was run,
\* and a second one after "git push -u origin main" had failed.
PushEvents(r, rem, net) ==
    {"push_cmd"}
    \cup (IF ~HasUpstream(r) /\ ~PushAccepted(r, rem, "main", net.push)
          THEN {"push_retried"} ELSE {})

\* do_push, from "Push to server" on
PushToServer(w, net) ==
    LET r == w.repo
        ok == PushOk(r, w.remote, net)
        w1 == LogAll(w, PushEvents(r, w.remote, net))
    IN IF ok
       THEN Return(Log([w1 EXCEPT !.repo = AfterPushRepo(r), !.remote = r.tip],
                       "saved"), 0)
       ELSE Return(w1, 1)

\* PullImport followed by a push of the local branch.
PullImportSaving(w) ==
    Return(LogAll([w EXCEPT !.dirs = ImportFromRepoToSlicers(cfgDirs, w.dirs, w.repo.wt),
                            !.repo = AfterPushRepo(w.repo),
                            !.remote = w.repo.tip],
                  {"imported", "push_cmd"}), 0)

\* import_from_repo_to_slicers and the end of do_pull_import
PullImport(w) ==
    Return(Log([w EXCEPT !.dirs = ImportFromRepoToSlicers(cfgDirs, w.dirs, w.repo.wt)],
               "imported"), 0)

\* interactive_resolve_conflicts, up to its first prompt
ResolveBegin(w, caller) ==
    IF GitGetConflictedFiles(w.repo) = <<>>
    THEN Return(Log(w, "no_conflicted_files"), 1)
    ELSE [Log(w, "conflict_shown") EXCEPT !.pc = "ask_open", !.ses.cont = caller]

\* The try/except around git_pull_rebase in do_push and do_pull_import.
PullRebaseStep(w, net, caller) ==
    LET p == GitPullRebase(w.repo, w.remote, net.fetch)
        w0 == [LogAll(w, RebaseEvents(w.repo, p, caller) \cup FetchEvents(net)) EXCEPT
                  !.ses.pre = <<w.repo.head, w.repo.wt>>]
        w1 == [w0 EXCEPT !.repo = p.r]
    IN IF p.raised
       THEN IF GitHasConflicts(p.r) THEN ResolveBegin(w1, caller)
            ELSE Return(w1, 1)
       ELSE IF caller = "push" THEN PushToServer(w1, net)
            ELSE PullImport(w1)

\* do_push, up to the divergence prompt
DoPush(w, net) ==
    LET c == GitCommitIfNeeded(w.repo, "me")
        r == c.r
        w0 == LogAll(w, PushStartEvents(w))
        w1 == [(IF c.committed THEN Log(w0, "committed") ELSE w0) EXCEPT !.repo = r]
        needs_push == GitHasCommits(r)
                      /\ (~OriginMainExists(r) \/ r.head # r.tracking)
        diverged == GitHasCommits(r) /\ OriginMainExists(r)
                    /\ ~IsAncestor(r.tracking, r.head)
    IN IF ~c.committed /\ ~needs_push
       THEN Return(Log(w1, "already_synced"), 0)
       ELSE IF diverged
            THEN [Log(w1, "warned_diverged") EXCEPT !.pc = "ask_diverged"]
            ELSE PullRebaseStep(w1, net, "push")

\* do_pull_import, up to the discard prompt
DoPullImport(w, net) ==
    LET w1 == [w EXCEPT !.repo = EnsureOnBranch(w.repo)]
    IN IF GitStatusDirty(w1.repo)
       THEN [Log(w1, "warned_discard") EXCEPT !.pc = "ask_discard"]
       ELSE PullRebaseStep(w1, net, "pull")

\* The commits do_pick_version_import and PickVersionScreen offer.
PickList(r) == SelectSeq(GitListCommits(r), LAMBDA h : ~h[Len(h)].boot)

\* do_pick_version_import, up to the selection prompt
DoPickVersionImport(w) ==
    IF PickList(w.repo) = <<>> THEN Return(w, 1)
    ELSE [w EXCEPT !.pc = "ask_pick", !.ses.offer = PickList(w.repo)]

\* cmd_sync's else branch ("4", full sync): the pull follows a push that
\* returned 0.
ThenPull(w, net) ==
    IF w.pc = "done" /\ w.ses.thenPull /\ w.ses.mode = "cli"
    THEN IF w.ses.result = 0
         THEN DoPullImport([Log(w, "pull_phase") EXCEPT
                               !.pc = "run", !.ses.thenPull = FALSE,
                               !.ses.result = -1], net)
         ELSE w
    ELSE w

\* cmd_sync up to the export: fetch (its failure is ignored) and the scan
SyncPrelude(w, net, mode) ==
    LET r1 == IF net.sync THEN [w.repo EXCEPT !.tracking = w.remote] ELSE w.repo
        x == ExportFromSlicersToRepo(cfgDirs, w.dirs, r1.wt)
    IN [w EXCEPT !.repo = [r1 EXCEPT !.wt = x.w],
                 !.exported = x.copied,
                 !.ses = [NoSession EXCEPT !.mode = mode, !.dirs0 = w.dirs],
                 !.pc = "run"]

\* cmd_sync with --action
CmdSyncAction(w, action, net) ==
    LET w1 == SyncPrelude(w, net, "cli")
    IN CASE action = "push" -> DoPush(w1, net)
         [] action = "pull" -> DoPullImport(w1, net)
         [] action = "pick" -> DoPickVersionImport(w1)
         [] OTHER -> ThenPull(DoPush([w1 EXCEPT !.ses.thenPull = TRUE], net), net)

\* main around cmd_sync when Config.load finds no configuration file: the
\* FileNotFoundError is caught by main, which prints the hint to run init
\* and returns 1.
CmdSyncNoConfig(w) ==
    Return(Log([w EXCEPT !.ses = [NoSession EXCEPT !.mode = "cli",
                                                   !.dirs0 = w.dirs]],
               "no_config"), 1)

\* ResolveOpen with the import carried out although the user declined.
ResolveOpenImporting(w, yes) ==
    IF yes THEN [w EXCEPT !.pc = "ask_edit"]
    ELSE PullImport(Log(w, "declined"))

\* interactive_resolve_conflicts after "Open files in editor?"
ResolveOpen(w, yes) ==
    IF yes THEN [w EXCEPT !.pc = "ask_edit"]
    ELSE Return(Log(w, "declined"), 1)

\* The editor loop: edit[p] is the text the user leaves in conflicted file p
\* (ConflictText: the file was not opened, or saved with its markers).
ResolveEdit(w, edit) ==
    [w EXCEPT !.pc = "ask_mark",
              !.repo.wt = [p \in Rels |-> IF p \in DOMAIN edit THEN edit[p]
                                          ELSE w.repo.wt[p]]]

\* ResolveMark with the caller pushing although the user declined.
ResolveMarkPushing(w, yes, net) ==
    IF yes
    THEN LET c == IF w.repo.rb.active THEN GitRebaseContinue(w.repo)
                  ELSE [r |-> GitCommitIfNeeded(w.repo, "me").r, raised |-> FALSE]
             w1 == [Log(w, "marked_resolved") EXCEPT !.repo = c.r]
         IN IF c.raised THEN Return(w1, 1)
            ELSE IF w.ses.cont = "push" THEN PushToServer(Log(w1, "resolved"), net)
            ELSE PullImport(Log(w1, "resolved"))
    ELSE LET w1 == [Log(Log(w, "declined"), "abort") EXCEPT
                       !.repo = GitRebaseAbort(w.repo)]
         IN IF w.ses.cont = "push" THEN PushToServer(w1, net) ELSE Return(w1, 1)

\* interactive_resolve_conflicts after "Mark all conflicts as resolved and
\* continue?", and the caller's continuation when it returns True
ResolveMark(w, yes, net) ==
    IF yes
    THEN LET c == IF w.repo.rb.active THEN GitRebaseContinue(w.repo)
                  ELSE [r |-> GitCommitIfNeeded(w.repo, "me").r, raised |-> FALSE]
             w1 == [Log(w, "marked_resolved") EXCEPT !.repo = c.r]
         IN IF c.raised THEN Return(w1, 1)
            ELSE IF w.ses.cont = "push" THEN PushToServer(Log(w1, "resolved"), net)
            ELSE PullImport(Log(w1, "resolved"))
    ELSE Return([Log(Log(w, "declined"), "abort") EXCEPT
                    !.repo = GitRebaseAbort(w.repo)], 1)

\* do_push after "Continue with push (may need to resolve conflicts)?"
AfterDivergedPrompt(w, yes, net) ==
    IF yes THEN PullRebaseStep(Log(w, "confirmed_diverged"), net, "push")
    ELSE Return(w, 0)

\* do_pull_import after "Continue and overwrite local files with server
\* version?"
AfterDiscardPrompt(w, yes, net) ==
    IF yes
    THEN PullRebaseStep([Log(Log(w, "confirmed_discard"), "reset_hard") EXCEPT
                            !.repo = GitResetHardClean(w.repo)], net, "pull")
    ELSE Return(w, 0)

\* do_pick_version_import after "Selection:"; choice 0 is "q", a choice
\* beyond the list is rejected
AfterPickPrompt(w, choice) ==
    IF choice = 0 THEN Return(w, 0)
    ELSE IF choice > Len(w.ses.offer) THEN Return(w, 1)
    ELSE LET c == GitCheckoutCommit(w.repo, w.ses.offer[choice])
         IN IF c.raised THEN Return(w, 1)
            ELSE [Log([w EXCEPT !.repo = c.r,
                                !.dirs = ImportFromRepoToSlicers(cfgDirs, w.dirs, c.r.wt),
                                !.ses.sel = <<choice>>], "restored")
                  EXCEPT !.pc = "ask_return"]

\* do_pick_version_import after "Return to latest version?"
AfterReturnPrompt(w, yes) ==
    Return(IF yes THEN [Log(w, "return_yes") EXCEPT !.repo = EnsureOnBranch(w.repo)]
           ELSE Log(w, "return_no"), 0)

\* ---- the Textual screens (tui.py) --------------------------------------------

\* The indices of a selection list, in list order.
SelSeq(S, n) == SelectSeq([i \in 1..n |-> i], LAMBDA i : i \in S)

Pick(seq, idx) == [i \in 1..Len(idx) |-> seq[idx[i]]]

\* A menu choice opens a screen: what the flow did so far starts empty.
OpenScreen(w, screen, thenPull) ==
    [w EXCEPT !.pc = screen,
              !.ses = [NoSession EXCEPT !.mode = "tui", !.thenPull = thenPull,
                                        !.dirs0 = w.dirs]]

\* PushScreen.compose: the selection list is built from the app's change-set.
ComposePush(w) == [w EXCEPT !.ses.scan = w.exported]

\* cmd_sync without --action: fetch, scan, then the app shows MainScreen
TuiStartSession(w, net) ==
    [Log(SyncPrelude(w, net, "tui"), "tui_started") EXCEPT !.pc = "main"]

\* MainSelect that starts the push worker also on an empty change-set.
MainSelectPushingAnyway(w, oid) ==
    CASE oid = "push" ->
            IF w.exported # <<>> THEN ComposePush(OpenScreen(w, "push_sel", FALSE))
            ELSE OpenScreen(w, "push_work", FALSE)
      [] oid = "pull" -> OpenScreen(w, "pull_load", FALSE)
      [] oid = "full_sync" ->
            IF w.exported # <<>> THEN ComposePush(OpenScreen(w, "push_sel", TRUE))
            ELSE OpenScreen(w, "pull_load", FALSE)
      [] OTHER -> OpenScreen(w, "pick_load", FALSE)

\* MainScreen.on_option_list_option_selected
MainSelect(w, oid) ==
    CASE oid = "push" ->
            IF w.exported # <<>> THEN ComposePush(OpenScreen(w, "push_sel", FALSE))
            ELSE Log(OpenScreen(w, "main", FALSE), "nothing_to_push")
      [] oid = "pull" -> OpenScreen(w, "pull_load", FALSE)
      [] oid = "full_sync" ->
            IF w.exported # <<>> THEN ComposePush(OpenScreen(w, "push_sel", TRUE))
            ELSE OpenScreen(w, "pull_load", FALSE)
      [] OTHER -> OpenScreen(w, "pick_load", FALSE)

\* PushScreen.action_confirm
PushActionConfirm(w, S) ==
    IF S = {} THEN w
    ELSE [w EXCEPT !.pc = "push_work", !.ses.sel = SelSeq(S, Len(w.ses.scan))]

\* The worker hands its result to _after_push.
PushDone(w, success) == [w EXCEPT !.pc = "push_after", !.ses.ok = success]

\* PushScreen._execute_push; an index beyond the app's change-set ends the
\* worker with an unhandled IndexError, which stops the app.
ExecutePush(w, net) ==
    IF \E i \in 1..Len(w.ses.sel) : w.ses.sel[i] > Len(w.exported)
    THEN Return(w, 1)
    ELSE
    LET selected_files == Pick(w.exported, w.ses.sel)
        r0 == IF Len(selected_files) < Len(w.exported)
              THEN LET r == GitResetHardClean(w.repo)
                   IN [r EXCEPT !.wt = ExportSelectedToRepo(w.dirs, selected_files, r.wt)]
              ELSE w.repo
        c == GitCommitIfNeeded(r0, "me")
        r1 == c.r
        w0 == LogAll(w, PushStartEvents(w))
        w1 == [(IF c.committed THEN Log(w0, "committed") ELSE w0) EXCEPT !.repo = r1]
        needs_push == GitHasCommits(r1)
                      /\ (~OriginMainExists(r1) \/ r1.head # r1.tracking)
        p == GitPullRebase(r1, w.remote, net.fetch)
        w2 == [LogAll(w1, RebaseEvents(r1, p, "push") \cup FetchEvents(net)) EXCEPT
                  !.ses.pre = <<r1.head, r1.wt>>]
    IN IF ~needs_push THEN PushDone(Log(w1, "already_synced"), TRUE)
       ELSE IF p.raised
            THEN IF GitHasConflicts(p.r)
                 THEN PushDone([Log(Log(w2, "conflict_shown"), "abort") EXCEPT
                                   !.repo = GitRebaseAbort(p.r)], FALSE)
                 ELSE PushDone([Log(w2, "error_shown") EXCEPT !.repo = p.r], FALSE)
            ELSE IF PushOk(p.r, w.remote, net)
                 THEN PushDone([Log(LogAll(w2, PushEvents(p.r, w.remote, net)),
                                    "saved") EXCEPT
                                   !.repo = AfterPushRepo(p.r),
                                   !.remote = p.r.tip], TRUE)
                 ELSE PushDone([LogAll(w2, PushEvents(p.r, w.remote, net)
                                                \cup {"error_shown"}) EXCEPT
                                   !.repo = p.r], FALSE)

\* PushScreen._after_push
AfterPushCallback(w) ==
    LET x == ReExport(cfgDirs, w.dirs, w.repo)
        w1 == IF w.ses.ok
              THEN [w EXCEPT !.repo.wt = x.w, !.exported = x.exported]
              ELSE w
    IN [w1 EXCEPT !.pc = IF w.ses.ok /\ w.ses.thenPull THEN "pull_load" ELSE "main"]

\* PullScreen._display_profiles: the selection list, each profile with the
\* initial state of its check box.
DisplayProfiles(profiles) ==
    [i \in 1..Len(profiles) |->
        [rel |-> profiles[i].rel,
         has_local |-> profiles[i].has_local,
         matches_local |-> profiles[i].matches_local,
         checked |-> ~profiles[i].matches_local]]

\* PullScreen._load_profiles and _display_profiles
LoadProfiles(w, net) ==
    LET r0 == EnsureOnBranch(w.repo)
        dirty == GitStatusDirty(r0)
        r1 == IF dirty THEN GitResetHardClean(r0) ELSE r0
        p == GitPullRebase(r1, w.remote, net.fetch)
        w1 == [LogAll(IF dirty THEN Log(w, "reset_hard") ELSE w,
                      RebaseEvents(r1, p, "pull") \cup FetchEvents(net)) EXCEPT
                  !.ses.pre = <<r1.head, r1.wt>>]
        profiles == CollectServerProfiles(cfgDirs, w.dirs, p.r.wt)
    IN IF p.raised
       THEN [LogAll(w1, IF GitHasConflicts(p.r) THEN {"abort", "error_shown"}
                        ELSE {"error_shown"}) EXCEPT
                !.repo = IF GitHasConflicts(p.r) THEN GitRebaseAbort(p.r) ELSE p.r,
                !.pc = "main"]
       ELSE IF profiles = <<>>
            THEN [w1 EXCEPT !.repo = p.r, !.pc = "main"]
            ELSE [w1 EXCEPT !.repo = p.r, !.pc = "pull_sel",
                            !.ses.offer = DisplayProfiles(profiles)]

\* PullScreen.action_confirm
PullActionConfirm(w, S) ==
    IF S = {} THEN w
    ELSE [w EXCEPT !.pc = "pull_work", !.ses.sel = SelSeq(S, Len(w.ses.offer))]

\* _execute_pull without its re-export.
ExecutePullNoRescan(w) ==
    [Log(w, "imported") EXCEPT
        !.dirs = ImportSelectedProfiles(cfgDirs, w.dirs, w.repo.wt,
                                        Pick(w.ses.offer, w.ses.sel)),
        !.pc = "main"]

\* PullScreen._execute_pull
ExecutePull(w) ==
    LET fs == ImportSelectedProfiles(cfgDirs, w.dirs, w.repo.wt,
                                     Pick(w.ses.offer, w.ses.sel))
        x == ReExport(cfgDirs, fs, w.repo)
    IN [Log(w, "imported") EXCEPT !.dirs = fs, !.repo.wt = x.w,
                                  !.exported = x.exported, !.pc = "main"]

\* PickVersionScreen._load_versions and _display_versions
LoadVersions(w) ==
    IF PickList(w.repo) = <<>> THEN [w EXCEPT !.pc = "main"]
    ELSE [w EXCEPT !.pc = "pick_sel", !.ses.offer = PickList(w.repo)]

\* PickVersionScreen.on_option_list_option_selected
PickOptionSelected(w, idx) == [w EXCEPT !.pc = "pick_work", !.ses.sel = <<idx>>]

\* PickVersionScreen._restore_version; a git checkout that fails ends the
\* worker with an unhandled CalledProcessError, which stops the app.
RestoreVersion(w) ==
    LET c == GitCheckoutCommit(w.repo, w.ses.offer[w.ses.sel[1]])
    IN IF c.raised THEN Return(w, 1)
       ELSE [Log(w, "restored") EXCEPT
                !.dirs = ImportFromRepoToSlicers(cfgDirs, w.dirs, c.r.wt),
                !.repo = EnsureOnBranch(c.r),
                !.pc = "main"]

\* action_go_back of PushScreen, PullScreen and PickVersionScreen
GoBack(w) == [w EXCEPT !.pc = "main"]

\* ---- state, initial state, actions ------------------------------------------

World == [repo |-> repo, remote |-> remote, dirs |-> dirs,
          exported |-> exported, ses |-> ses, pc |-> pc]

\* No history of the model is longer than MaxHist.
Fits(w) ==
    /\ Len(w.repo.head) <= MaxHist
    /\ Len(w.repo.tip) <= MaxHist
    /\ Len(w.remote) <= MaxHist

\* The world becomes w and the workers no screen waits for become x.
StepWith(w, started, x) ==
    /\ Fits(w)
    /\ repo' = w.repo
    /\ remote' = w.remote
    /\ dirs' = w.dirs
    /\ exported' = w.exported
    /\ ses' = w.ses
    /\ pc' = w.pc
    /\ extra' = x
    /\ runs' = IF started THEN runs + 1 ELSE runs
    /\ UNCHANGED <<cap, cfgDirs>>

Step(w, started) == StepWith(w, started, extra)

\* A step inside a flow, and the step that starts one.
Becomes(w) == Step(w, FALSE)

Starts(w) == runs < MaxRuns /\ Step(w, TRUE)

Net == [sync : BOOLEAN, fetch : BOOLEAN, push : BOOLEAN]

\* The clone after initialize_empty_repo on an empty remote.
InitRepo(branch) ==
    [head |-> <<BootCommit("me")>>, tip |-> <<BootCommit("me")>>,
     detached |-> FALSE, tracking |-> <<>>, upstream |-> FALSE,
     primary |-> branch, wt |-> EmptyTree, rb |-> NoRebase, stash |-> <<>>]

InitCommon ==
    /\ dirs = [d \in Dirs |-> EmptyTree]
    /\ remote = <<>>
    /\ exported = <<>>
    /\ pc = "idle"
    /\ ses = NoSession
    /\ extra = <<>>
    /\ \E b \in {"main", "master"} : repo = InitRepo(b)

\* The file versions a run may write: MaxVersions of them in all, the
\* earlier path having at least as many as the later one; the profile
\* directory itself holds no JSON file.
Caps ==
    {u \in [Rels -> 0..MaxContent] :
        /\ u[RelSeq[1]] + u[RelSeq[2]] = MaxVersions
        /\ u[RelSeq[1]] >= u[RelSeq[2]]
        /\ u[RelSeq[3]] = 0}

Init ==
    /\ runs = 0
    /\ cap \in Caps
    /\ cfgDirs = <<1>>
    /\ InitCommon

\* The user saves, changes or removes a profile in a slicer.
EditFile ==
    /\ pc = "idle"
    /\ \E i \in 1..Len(cfgDirs), p \in Rels, c \in 0..MaxContent :
          /\ c <= cap[p]
          /\ dirs[cfgDirs[i]][p] # c
          /\ dirs' = [dirs EXCEPT ![cfgDirs[i]][p] = c]
    /\ UNCHANGED <<runs, cap, cfgDirs, extra, repo, remote, exported, pc, ses>>

\* Another machine pushes a commit that changes one profile.
OtherMachinePush ==
    /\ pc = "idle"
    /\ Len(remote) < MaxHist
    /\ Cardinality({i \in 1..Len(remote) :
                       remote[i].by = "other" /\ ~remote[i].boot}) < MaxOtherPush
    /\ \E p \in Rels, c \in 0..MaxContent :
          LET base == IF remote = <<>> THEN <<BootCommit("other")>> ELSE remote
              t == [HeadTree(base) EXCEPT ![p] = c]
          IN /\ c <= cap[p]
             /\ HeadTree(base)[p] # c
             /\ Len(base) < MaxHist
             /\ remote' = Append(base, SyncCommit(t, "other"))
    /\ UNCHANGED <<runs, cap, cfgDirs, extra, dirs, repo, exported, pc, ses>>

\* profilesync sync --action <action>
CliSync ==
    /\ pc = "idle"
    /\ \E a \in {"push", "pull", "pick", "full"}, net \in Net :
          Starts(CmdSyncAction(World, a, net))

\* profilesync sync with the configuration file missing
SyncNoConfig ==
    /\ pc = "idle"
    /\ Starts(CmdSyncNoConfig(World))

AnswerDiverged ==
    /\ pc = "ask_diverged"
    /\ \E yes \in BOOLEAN, net \in Net :
          Becomes(ThenPull(AfterDivergedPrompt(World, yes, net), net))

AnswerDiscard ==
    /\ pc = "ask_discard"
    /\ \E yes \in BOOLEAN, net \in Net :
          Becomes(AfterDiscardPrompt(World, yes, net))

AnswerOpen ==
    /\ pc = "ask_open"
    /\ \E yes \in BOOLEAN : Becomes(ThenPull(ResolveOpen(World, yes), [sync |-> TRUE, fetch |-> TRUE, push |-> TRUE]))

AnswerEdit ==
    /\ pc = "ask_edit"
    /\ \E edit \in [repo.rb.unmerged -> Contents \cup {ConflictText}] :
          /\ \A p \in repo.rb.unmerged : edit[p] <= cap[p]
          /\ Becomes(ResolveEdit(World, edit))

AnswerMark ==
    /\ pc = "ask_mark"
    /\ \E yes \in BOOLEAN, net \in Net :
          Becomes(ThenPull(ResolveMark(World, yes, net), net))

AnswerPick ==
    /\ pc = "ask_pick"
    /\ \E choice \in 0..(Len(ses.offer) + 1) : Becomes(AfterPickPrompt(World, choice))

AnswerReturn ==
    /\ pc = "ask_return"
    /\ \E yes \in BOOLEAN : Becomes(AfterReturnPrompt(World, yes))

\* The process exits; the next session starts from the files it left.
Exit ==
    /\ pc = "done"
    /\ pc' = "idle"
    /\ ses' = NoSession
    /\ exported' = <<>>
    /\ extra' = <<>>
    /\ UNCHANGED <<runs, cap, cfgDirs, dirs, repo, remote>>

\* profilesync sync (no --action): the Textual app starts
TuiStart ==
    /\ pc = "idle"
    /\ \E net \in Net : Becomes(TuiStartSession(World, net))

MainMenu ==
    /\ pc = "main"
    /\ \E oid \in {"push", "pull", "full_sync", "pick"} : Starts(MainSelect(World, oid))

MainQuit ==
    /\ pc = "main"
    /\ Becomes(Return(World, 0))

PushConfirm ==
    /\ pc = "push_sel"
    /\ \E S \in SUBSET (1..Len(ses.scan)) : Becomes(PushActionConfirm(World, S))

PushWorker ==
    /\ pc = "push_work"
    /\ \E net \in Net : Becomes(ExecutePush(World, net))

AfterPush ==
    /\ pc = "push_after"
    /\ Becomes(AfterPushCallback(World))

PullLoad ==
    /\ pc = "pull_load"
    /\ \E net \in Net : Becomes(LoadProfiles(World, net))

PullConfirm ==
    /\ pc = "pull_sel"
    /\ \E S \in SUBSET (1..Len(ses.offer)) : Becomes(PullActionConfirm(World, S))

PullWorker ==
    /\ pc = "pull_work"
    /\ Becomes(ExecutePull(World))

PickLoad ==
    /\ pc = "pick_load"
    /\ Becomes(LoadVersions(World))

PickSelect ==
    /\ pc = "pick_sel"
    /\ \E idx \in 1..Len(ses.offer) : Becomes(PickOptionSelected(World, idx))

RestoreWorker ==
    /\ pc = "pick_work"
    /\ Becomes(RestoreVersion(World))

Back ==
    /\ pc \in {"push_sel", "pull_sel", "pick_sel"}
    /\ Becomes(GoBack(World))

Next ==
    \/ EditFile
    \/ OtherMachinePush
    \/ CliSync
    \/ SyncNoConfig
    \/ AnswerDiverged
    \/ AnswerDiscard
    \/ AnswerOpen
    \/ AnswerEdit
    \/ AnswerMark
    \/ AnswerPick
    \/ AnswerReturn
    \/ TuiStart
    \/ MainMenu
    \/ MainQuit
    \/ PushConfirm
    \/ PushWorker
    \/ AfterPush
    \/ PullLoad
    \/ PullConfirm
    \/ PullWorker
    \/ PickLoad
    \/ PickSelect
    \/ RestoreWorker
    \/ Back
    \/ Exit

Spec == Init /\ [][Next]_vars

\* ---- the mirror engine on its own ---------------------------------------------
\* One or two configured directories, no other machine; ses.cont records what
\* was done last to the mirror: "scan", "scan2" (a scan straight after a scan),
\* "removed" (a mirrored file removed straight after a scan, ses.offer names
\* it), "rescan" (the scan straight after that removal).

InitMirror ==
    /\ runs = 0
    /\ cap \in Caps
    /\ cfgDirs \in {<<1>>, <<1, 2>>}
    /\ InitCommon

\* A profile is saved, changed or removed in a configured directory.
MirrorEdit ==
    /\ pc = "idle"
    /\ \E i \in 1..Len(cfgDirs), p \in Rels, c \in 0..MaxContent :
          /\ c <= cap[p]
          /\ dirs[cfgDirs[i]][p] # c
          /\ dirs' = [dirs EXCEPT ![cfgDirs[i]][p] = c]
    /\ ses' = NoSession
    /\ UNCHANGED <<runs, cap, cfgDirs, extra, repo, remote, exported, pc>>

\* export_from_slicers_to_repo
MirrorScan ==
    /\ pc = "idle"
    /\ LET x == ExportFromSlicersToRepo(cfgDirs, dirs, repo.wt)
       IN /\ repo' = [repo EXCEPT !.wt = x.w]
          /\ exported' = x.copied
    /\ ses' = [NoSession EXCEPT
                  !.mode = "mirror",
                  !.cont = CASE ses.cont \in {"scan", "scan2"} -> "scan2"
                             [] ses.cont = "removed" -> "rescan"
                             [] OTHER -> "scan",
                  !.offer = IF ses.cont = "removed" THEN ses.offer ELSE <<>>]
    /\ UNCHANGED <<runs, cap, cfgDirs, extra, dirs, remote, pc>>

\* A file the last scan mirrored is removed from its directory.
MirrorRemove ==
    /\ pc = "idle"
    /\ ses.cont \in {"scan", "scan2"}
    /\ \E i \in 1..Len(cfgDirs), p \in Rels :
          /\ dirs[cfgDirs[i]][p] # 0
          /\ repo.wt[p] # 0
          /\ dirs' = [dirs EXCEPT ![cfgDirs[i]][p] = 0]
          /\ ses' = [ses EXCEPT !.cont = "removed", !.offer = <<cfgDirs[i], p>>]
    /\ UNCHANGED <<runs, cap, cfgDirs, extra, repo, remote, exported, pc>>

\* MainScreen "push" on the change-set of the last scan
MirrorPush ==
    /\ pc = "idle"
    /\ ses.cont \in {"scan", "scan2", "rescan"}
    /\ exported # <<>>
    /\ Becomes(MainSelect(World, "push"))

\* The push screen is closed; after a successful push the re-scan of
\* _after_push is the last thing done to the mirror.
MirrorRest ==
    /\ pc = "main"
    /\ pc' = "idle"
    /\ ses' = [NoSession EXCEPT !.mode = "mirror",
                                !.cont = IF ses.ok THEN "scan" ELSE "none"]
    /\ UNCHANGED <<runs, cap, cfgDirs, extra, dirs, repo, remote, exported>>

NextMirror ==
    \/ MirrorEdit
    \/ MirrorScan
    \/ MirrorRemove
    \/ MirrorPush
    \/ PushConfirm
    \/ PushWorker
    \/ AfterPush
    \/ Back
    \/ MirrorRest

SpecMirror == InitMirror /\ [][NextMirror]_vars

\* ---- the mirror of a directory that holds a JSON file itself ----------------
\* One configured directory; one version of a file below a profile-type
\* directory and one of the file in the directory itself.

InitLayout ==
    /\ runs = 0
    /\ cap = [p \in Rels |-> IF p = RelSeq[2] THEN 0 ELSE 1]
    /\ cfgDirs = <<1>>
    /\ InitCommon

SpecLayout == InitLayout /\ [][NextMirror]_vars

\* ---- two configured directories, the second on disk being the first in the
\* configuration ----------------------------------------------------------------

InitImport ==
    /\ runs = 0
    /\ cap \in Caps
    /\ cfgDirs = <<2, 1>>
    /\ InitCommon

SpecImport == InitImport /\ [][Next]_vars

\* ---- the key bindings of a selection list -------------------------------------
\* PushScreen and PullScreen bind the same keys to the same bodies.  The list
\* is composed once per screen; it starts here as the pull screen shows it
\* when some profiles match the local files and some do not: the former
\* unselected, the latter selected.  Select-all leads to the list as the
\* push screen starts it.

MaxItems == 3

Items(l) == 0..(l.count - 1)

Min2(a, b) == IF a <= b THEN a ELSE b

Max2(a, b) == IF a >= b THEN a ELSE b

\* action_select_all
SelectAll(l) == [l EXCEPT !.selected = Items(l)]

\* action_select_none
SelectNone(l) == [l EXCEPT !.selected = {}]

\* action_invert
Invert(l) == [l EXCEPT !.selected = Items(l) \ @]

\* A range selection that keeps only the range selected.
RangeSelectOnly(l) ==
    IF l.highlighted = NoIndex THEN l
    ELSE IF l.anchor = NoIndex THEN [l EXCEPT !.anchor = l.highlighted]
    ELSE [l EXCEPT !.selected = Min2(l.anchor, l.highlighted)..Max2(l.anchor, l.highlighted),
                   !.anchor = NoIndex]

\* action_range_select
RangeSelect(l) ==
    IF l.highlighted = NoIndex THEN l
    ELSE IF l.anchor = NoIndex THEN [l EXCEPT !.anchor = l.highlighted]
    ELSE LET lo == Min2(l.anchor, l.highlighted)
             hi == Max2(l.anchor, l.highlighted)
         IN [l EXCEPT !.selected = @ \cup {idx \in Items(l) : lo <= idx /\ idx <= hi},
                      !.anchor = NoIndex]

\* what action_range_select notifies
RangeEvents(l) ==
    IF l.highlighted = NoIndex THEN {}
    ELSE IF l.anchor = NoIndex THEN {"range_anchor_set"}
    ELSE {"range_selected"}

InitSelect ==
    /\ runs = 0
    /\ cap = [p \in Rels |-> 0]
    /\ cfgDirs = <<1>>
    /\ dirs = [d \in Dirs |-> EmptyTree]
    /\ repo = InitRepo("main")
    /\ remote = <<>>
    /\ exported = <<>>
    /\ pc = "select"
    /\ extra = <<>>
    /\ \E n \in 2..MaxItems :
          \E S \in SUBSET (0..(n - 1)) \ {{}, 0..(n - 1)} :
             ses = [NoSession EXCEPT !.mode = "tui",
                                     !.list = [NoList EXCEPT !.count = n, !.selected = S]]

SelectFrame == UNCHANGED <<runs, cap, cfgDirs, dirs, repo, remote, exported, pc, extra>>

\* The list moves its highlight (cursor keys, mouse).
MoveHighlight ==
    /\ pc = "select"
    /\ \E h \in Items(ses.list) : ses' = [ses EXCEPT !.list.highlighted = h]
    /\ SelectFrame

\* The list toggles the highlighted item (space, click).
ToggleHighlighted ==
    /\ pc = "select"
    /\ ses.list.highlighted # NoIndex
    /\ ses' = [ses EXCEPT !.list.selected =
                   IF ses.list.highlighted \in @ THEN @ \ {ses.list.highlighted}
                   ELSE @ \cup {ses.list.highlighted}]
    /\ SelectFrame

ActionSelectAll ==
    /\ pc = "select"
    /\ ses' = [ses EXCEPT !.list = SelectAll(@)]
    /\ SelectFrame

ActionSelectNone ==
    /\ pc = "select"
    /\ ses' = [ses EXCEPT !.list = SelectNone(@)]
    /\ SelectFrame

ActionInvert ==
    /\ pc = "select"
    /\ ses' = [ses EXCEPT !.list = Invert(@)]
    /\ SelectFrame

ActionRangeSelect ==
    /\ pc = "select"
    /\ ses' = [ses EXCEPT !.list = RangeSelect(@),
                          !.log = @ \cup RangeEvents(ses.list)]
    /\ SelectFrame

NextSelect ==
    \/ MoveHighlight
    \/ ToggleHighlighted
    \/ ActionSelectAll
    \/ ActionSelectNone
    \/ ActionInvert
    \/ ActionRangeSelect

SpecSelect == InitSelect /\ [][NextSelect]_vars

\* ---- the scan on a clone of a server that has profiles --------------------------
\* The clone holds the server's profiles, checked out and unchanged; the
\* configuration names no directory, one or two, of which MissingDir is not
\* on disk; the directories on disk hold any profiles.

MissingDir == 3

InitClone ==
    /\ runs = 0
    /\ cap \in Caps
    /\ cfgDirs \in {<<>>, <<MissingDir>>, <<1>>, <<MissingDir, 1>>, <<1, MissingDir>>}
    /\ exported = <<>>
    /\ pc = "idle"
    /\ ses = NoSession
    /\ extra = <<>>
    /\ dirs \in [Dirs -> {t \in [Rels -> 0..MaxContent] : \A p \in Rels : t[p] <= cap[p]}]
    /\ dirs[2] = EmptyTree
    /\ \E t \in [Rels -> 0..MaxContent] :
          LET h == <<BootCommit("other"), SyncCommit(t, "other")>>
          IN /\ \A p \in Rels : t[p] <= cap[p]
             /\ t # EmptyTree
             /\ remote = h
             /\ repo = [InitRepo("main") EXCEPT !.head = h, !.tip = h, !.tracking = h,
                                                !.upstream = TRUE, !.wt = t]

\* A scan that passes over a profile set none of whose directories is on
\* disk.
ScanCallSkipping ==
    /\ pc = "idle"
    /\ \E x \in {IF \A i \in 1..Len(cfgDirs) : ~DirExists(dirs, cfgDirs[i])
                   THEN [w |-> repo.wt, copied |-> <<>>]
                   ELSE ExportFromSlicersToRepo(cfgDirs, dirs, repo.wt)} :
          /\ repo' = [repo EXCEPT !.wt = x.w]
          /\ exported' = x.copied
    /\ ses' = [NoSession EXCEPT !.mode = "scan"]
    /\ pc' = "done"
    /\ UNCHANGED <<runs, cap, cfgDirs, dirs, remote, extra>>

\* export_from_slicers_to_repo is called.
ScanCall ==
    /\ pc = "idle"
    /\ \E x \in {ExportFromSlicersToRepo(cfgDirs, dirs, repo.wt)} :
          /\ repo' = [repo EXCEPT !.wt = x.w]
          /\ exported' = x.copied
    /\ ses' = [NoSession EXCEPT !.mode = "scan"]
    /\ pc' = "done"
    /\ UNCHANGED <<runs, cap, cfgDirs, dirs, remote, extra>>

SpecClone == InitClone /\ [][ScanCall]_vars

\* ---- git_pull_rebase on its own ------------------------------------------------
\* The clone has one saved version; the server has the same history or one
\* commit more; the working tree is any tree, and the stash stack is empty or
\* holds one entry made by hand.

InitStash ==
    /\ runs = 0
    /\ cap \in Caps
    /\ cfgDirs = <<1>>
    /\ dirs = [d \in Dirs |-> EmptyTree]
    /\ exported = <<>>
    /\ pc = "idle"
    /\ ses = NoSession
    /\ extra = <<>>
    /\ \E t0, t1, w \in [Rels -> 0..MaxContent], behind \in BOOLEAN,
          st \in {<<>>, <<[base |-> EmptyTree, vals |-> [p \in {RelSeq[1]} |-> 1]]>>} :
          LET h == <<BootCommit("me"), SyncCommit(t0, "me")>>
          IN /\ \A p \in Rels : t0[p] <= cap[p] /\ t1[p] <= cap[p] /\ w[p] <= cap[p]
             /\ t0 # EmptyTree
             /\ t1 # t0
             /\ remote = IF behind THEN Append(h, SyncCommit(t1, "other")) ELSE h
             /\ repo = [InitRepo("main") EXCEPT !.head = h, !.tip = h,
                                                !.tracking = h, !.upstream = TRUE,
                                                !.wt = w, !.stash = st]

\* git_pull_rebase is called; ses.pre keeps HEAD, the working tree and the
\* stash stack of before the call, ses.ok whether the call returned.
GitPullRebaseCall ==
    /\ pc = "idle"
    /\ \E fetchOk \in BOOLEAN :
          \E p \in {GitPullRebase(repo, remote, fetchOk)} :
             /\ repo' = p.r
             /\ ses' = [NoSession EXCEPT !.mode = "git",
                                         !.pre = <<repo.head, repo.wt, repo.stash>>,
                                         !.ok = ~p.raised]
    /\ pc' = "done"
    /\ UNCHANGED <<runs, cap, cfgDirs, dirs, remote, exported, extra>>

SpecStash == InitStash /\ [][GitPullRebaseCall]_vars

\* ---- a profile history of two saved versions ---------------------------------
\* The state two push flows of Spec leave (EditFile, CliSync push, EditFile,
\* CliSync push, Exit): two versions saved to the server from this machine,
\* the slicer directory and the clone at the second one.

InitSaved ==
    /\ runs = 0
    /\ cap \in Caps
    /\ cfgDirs = <<1>>
    /\ exported = <<>>
    /\ pc = "idle"
    /\ ses = NoSession
    /\ extra = <<>>
    /\ \E b \in {"main", "master"}, t1, t2 \in [Rels -> 0..MaxContent] :
          LET h == <<BootCommit("me"), SyncCommit(t1, "me"), SyncCommit(t2, "me")>>
          IN /\ \A p \in Rels : t1[p] <= cap[p] /\ t2[p] <= cap[p]
             /\ t1 # EmptyTree
             /\ t2 # t1
             /\ repo = [InitRepo(b) EXCEPT !.head = h, !.tip = h, !.tracking = h,
                                          !.upstream = TRUE, !.wt = t2]
             /\ remote = h
             /\ dirs = [d \in Dirs |-> IF d = 1 THEN t2 ELSE EmptyTree]

NextSaved ==
    \/ EditFile
    \/ CliSync
    \/ SyncNoConfig
    \/ AnswerDiverged
    \/ AnswerDiscard
    \/ AnswerOpen
    \/ AnswerEdit
    \/ AnswerMark
    \/ AnswerPick
    \/ AnswerReturn
    \/ TuiStart
    \/ MainMenu
    \/ MainQuit
    \/ PushConfirm
    \/ PushWorker
    \/ AfterPush
    \/ PullLoad
    \/ PullConfirm
    \/ PullWorker
    \/ PickLoad
    \/ PickSelect
    \/ RestoreWorker
    \/ Back
    \/ Exit

SpecSaved == InitSaved /\ [][NextSaved]_vars

\* ---- a clone left on a detached HEAD --------------------------------------------
\* The state a push flow and a pick flow of Spec leave (EditFile, CliSync
\* push, Exit, CliSync pick, AnswerPick of the saved version, AnswerReturn
\* "no", Exit): one version saved to the server, HEAD detached at it, the
\* slicer directory at it.

InitDetached ==
    /\ runs = 0
    /\ cap \in Caps
    /\ cfgDirs = <<1>>
    /\ exported = <<>>
    /\ pc = "idle"
    /\ ses = NoSession
    /\ extra = <<>>
    /\ \E b \in {"main", "master"}, t1 \in [Rels -> 0..MaxContent] :
          LET h == <<BootCommit("me"), SyncCommit(t1, "me")>>
          IN /\ \A p \in Rels : t1[p] <= cap[p]
             /\ t1 # EmptyTree
             /\ repo = [InitRepo(b) EXCEPT !.head = h, !.tip = h, !.tracking = h,
                                          !.upstream = TRUE, !.detached = TRUE,
                                          !.wt = t1]
             /\ remote = h
             /\ dirs = [d \in Dirs |-> IF d = 1 THEN t1 ELSE EmptyTree]

SpecDetached == InitDetached /\ [][Next]_vars

\* ---- the Textual workers ------------------------------------------------------
\* _execute_push, _load_profiles, _execute_pull and _restore_version are
\* @work(thread=True) methods: the call returns at once and the body runs in
\* a thread of its own.  pc in Working says the screen on top waits for the
\* worker it started; extra holds the workers that run on although a later
\* key press replaced them (exclusive=True marks the earlier worker cancelled,
\* and no worker body looks at that mark) or dismissed their screen.

MaxExtra == 1

Working == {"push_work", "pull_load", "pull_work", "pick_work"}

\* The number of long-running operations in flight.
InFlight == Len(extra) + (IF pc \in Working THEN 1 ELSE 0)

\* The worker the screen on top started, with the data the screen gave it.
Running ==
    [kind |-> pc,
     ses |-> [NoSession EXCEPT !.mode = "tui", !.thenPull = ses.thenPull,
                               !.sel = ses.sel, !.offer = ses.offer]]

\* Enter (or a second option) while the screen's worker runs: action_confirm
\* and on_option_list_option_selected start the worker again.
ConfirmAgain ==
    /\ Len(extra) < MaxExtra
    /\ \/ /\ pc = "push_work"
          /\ \E S \in (SUBSET (1..Len(ses.scan))) \ {{}} :
                StepWith(PushActionConfirm(World, S), FALSE, Append(extra, Running))
       \/ /\ pc = "pull_work"
          /\ \E S \in (SUBSET (1..Len(ses.offer))) \ {{}} :
                StepWith(PullActionConfirm(World, S), FALSE, Append(extra, Running))
       \/ /\ pc = "pick_work"
          /\ \E idx \in 1..Len(ses.offer) :
                StepWith(PickOptionSelected(World, idx), FALSE, Append(extra, Running))

\* Escape while the screen's worker runs: action_go_back pops the screen.
BackWhileWorking ==
    /\ pc \in Working
    /\ Len(extra) < MaxExtra
    /\ StepWith(GoBack(World), FALSE, Append(extra, Running))

\* The body of a worker and the callbacks it schedules.
WorkerBody(w, net) ==
    CASE w.pc = "push_work" ->
            LET x == ExecutePush(w, net)
            IN IF x.pc = "done" THEN x ELSE AfterPushCallback(x)
      [] w.pc = "pull_load" -> LoadProfiles(w, net)
      [] w.pc = "pull_work" -> ExecutePull(w)
      [] OTHER -> RestoreVersion(w)

\* A worker no screen waits for finishes: its git and file operations are
\* done, and its pop_screen pops whatever screen is on top (the main menu
\* itself when no other screen is open, which leaves the app blank).
ExtraDone ==
    \E i \in 1..Len(extra), net \in Net :
        \E w1 \in {WorkerBody([World EXCEPT !.ses = extra[i].ses,
                                            !.pc = extra[i].kind], net)} :
            LET rest == [j \in 1..(Len(extra) - 1) |->
                            IF j < i THEN extra[j] ELSE extra[j + 1]]
                pops == w1.pc # "pull_sel"
                top == IF ~pops \/ pc \in {"done", "blank"} THEN pc
                       ELSE IF w1.pc \in {"done", "pull_load"} THEN w1.pc
                       ELSE IF pc = "main" THEN "blank"
                       ELSE "main"
                x == IF pops /\ pc \in Working THEN Append(rest, Running) ELSE rest
            IN StepWith([World EXCEPT !.repo = w1.repo, !.remote = w1.remote,
                                     !.dirs = w1.dirs, !.exported = w1.exported,
                                     !.pc = top,
                                     !.ses.result = IF top = "done" /\ pc # "done"
                                                    THEN 1 ELSE @],
                        FALSE, x)

\* A new clone on the main branch, one profile path in use.
InitWorkers ==
    /\ runs = 0
    /\ cap = [p \in Rels |-> IF p = RelSeq[1] THEN MaxVersions ELSE 0]
    /\ cfgDirs = <<1>>
    /\ dirs = [d \in Dirs |-> EmptyTree]
    /\ remote = <<>>
    /\ exported = <<>>
    /\ pc = "idle"
    /\ ses = NoSession
    /\ extra = <<>>
    /\ repo = InitRepo("main")

NextWorkers ==
    \/ EditFile
    \/ TuiStart
    \/ MainMenu
    \/ MainQuit
    \/ PushConfirm
    \/ PushWorker
    \/ AfterPush
    \/ PullLoad
    \/ PullConfirm
    \/ PullWorker
    \/ PickLoad
    \/ PickSelect
    \/ RestoreWorker
    \/ Back
    \/ Exit
    \/ ConfirmAgain
    \/ BackWhileWorking
    \/ ExtraDone

SpecWorkers == InitWorkers /\ [][NextWorkers]_vars

\* ---- properties ---------------------------------------------------------------

\* The other machine and this one have each committed a change to path p.
BothCommitted(p) ==
    /\ \E i \in 1..Len(remote) :
          /\ remote[i].by = "other"
          /\ remote[i].tree[p] # HeadTree(SubSeq(remote, 1, i - 1))[p]
    /\ ses.pre # <<>>
    /\ \E i \in 1..Len(ses.pre[1]) :
          /\ ses.pre[1][i].by = "me"
          /\ ses.pre[1][i].tree[p] # HeadTree(SubSeq(ses.pre[1], 1, i - 1))[p]

C2_DeclineAborts ==
    (pc = "done" /\ "declined" \in ses.log) =>
        /\ ~repo.rb.active
        /\ repo.rb.unmerged = {}
        /\ <<repo.head, repo.wt>> = ses.pre

\* C3. Every destructive action of a flow follows a confirmation of that
\* action: the reset --hard / clean before a pull follows the confirmed
\* discard prompt, a rebase --abort follows the user's decline.
C3_DestructiveConfirmed ==
    /\ "reset_hard" \in ses.log => "confirmed_discard" \in ses.log
    /\ "abort" \in ses.log => "declined" \in ses.log

\* The content entry e of a change-set puts at its destination.
EntryContent(e) ==
    IF e.src = None THEN 0
    ELSE IF e.src[1] = 0 THEN repo.wt[e.dst]
    ELSE dirs[e.src[1]][e.src[2]]

\* C5. When a strict subset of the listed change-set was confirmed and the
\* push flow created a commit, the committed tree differs from its parent
\* exactly by the selected entries: a path no selected entry names is as in
\* the parent, a path a selected entry names has that entry's content.
C5_OnlySelectedCommitted ==
    (/\ pc = "push_after"
     /\ "committed" \in ses.log
     /\ Len(ses.sel) < Len(ses.scan)) =>
        LET h == ses.pre[1]
            new == HeadTree(h)
            old == HeadTree(SubSeq(h, 1, Len(h) - 1))
            chosen(p) == {i \in 1..Len(ses.sel) : ses.scan[ses.sel[i]].dst = p}
            last(p) == CHOOSE i \in chosen(p) : \A j \in chosen(p) : j <= i
        IN \A p \in Rels :
              IF chosen(p) = {} THEN new[p] = old[p]
              ELSE new[p] = EntryContent(ses.scan[ses.sel[last(p)]])

\* A commit was made from one of two listed entries, and the entry left out
\* was a change the scan had made.
C5_Witness ==
    /\ pc = "push_after"
    /\ "committed" \in ses.log
    /\ Len(ses.scan) = 2
    /\ Len(ses.sel) = 1
    /\ \E i \in 1..2 :
          /\ i # ses.sel[1]
          /\ EntryContent(ses.scan[i]) # HeadTree(ses.pre[1])[ses.scan[i].dst]

\* C8. After the pick flow has restored snapshot X into a slicer directory
\* that was empty when the flow started, the directory holds exactly the
\* tree committed at X.
C8_RestoreReproduces ==
    ("restored" \in ses.log /\ ses.dirs0[cfgDirs[1]] = EmptyTree) =>
        dirs[cfgDirs[1]] = HeadTree(ses.offer[ses.sel[1]])

\* C9. A push flow that started with HEAD equal to the server's head and
\* nothing uncommitted runs no rebase and no push command, and ends with the
\* "already synced" success.
C9_AlreadySynced ==
    "synced_at_start" \in ses.log =>
        /\ "push_rebased" \notin ses.log
        /\ "push_cmd" \notin ses.log
        /\ "already_synced" \in ses.log

\* C10. The user is warned in a push flow only when the server's head has
\* commits outside HEAD's ancestry, and when it has, the flow rebases or
\* pushes only after the warning and the user's confirmation.
C10_DivergenceConfirmed ==
    /\ "warned_diverged" \in ses.log => "diverged" \in ses.log
    /\ ("diverged" \in ses.log
            /\ ("push_rebased" \in ses.log \/ "push_cmd" \in ses.log))
           => {"warned_diverged", "confirmed_diverged"} \subseteq ses.log

\* The entries of change-set n the selection sel (indices) leaves out.
Unselected(n, sel) ==
    SelectSeq(n, LAMBDA e : \E i \in 1..Len(n) :
                               /\ n[i] = e
                               /\ \A j \in 1..Len(sel) : sel[j] # i)

\* C4. Partial apply: after a successful push of the selection S of the
\* listed change-set N, the re-scan of _after_push is exactly the entries of
\* N that S leaves out.
C4_PartialApply ==
    (pc = "main" /\ ses.ok /\ ses.scan # <<>>) =>
        exported = Unselected(ses.scan, ses.sel)

\* C6. A scan that follows a scan, with no file changed in between, returns
\* an empty change-set.
C6_ScanIdempotent ==
    ses.cont = "scan2" => exported = <<>>

\* Some configured directory still holds a file at relative path p.
StillHeld(p) == \E i \in 1..Len(cfgDirs) : dirs[cfgDirs[i]][p] # 0

\* Two configured directories hold different files at relative path p.
Collides(p) ==
    \E i, j \in 1..Len(cfgDirs) :
        /\ dirs[cfgDirs[i]][p] # 0
        /\ dirs[cfgDirs[j]][p] # 0
        /\ dirs[cfgDirs[i]][p] # dirs[cfgDirs[j]][p]

\* Applying deletion entry e (export_selected_to_repo) leaves its file
\* absent, from the working tree as it is and from the tree of HEAD.
DeletionApplies(e) ==
    /\ ExportSelectedToRepo(dirs, <<e>>, repo.wt)[e.dst] = 0
    /\ ExportSelectedToRepo(dirs, <<e>>, HeadTree(repo.head))[e.dst] = 0

C11_PushOnlyAfterResolved ==
    ("push_rebase_failed" \in ses.log /\ "resolved" \notin ses.log) =>
        /\ "push_cmd" \notin ses.log
        /\ "saved" \notin ses.log
        /\ (ses.mode = "cli" /\ pc = "done") => ses.result # 0
        /\ ~ses.ok

\* A command-line push whose rebase stopped on a conflict, which the user
\* resolved, and which then pushed.
C11_Witness ==
    /\ ses.mode = "cli"
    /\ {"push_rebase_failed", "rebase_stopped", "resolved", "push_cmd", "saved"}
           \subseteq ses.log
    /\ ses.cont = "push"
    /\ remote = repo.head

\* C12. Whenever the pull flow has called git_pull_rebase, HEAD was on the
\* primary branch and not on a detached checkout.
C12_PullOnBranch ==
    "pull_detached" \notin ses.log

\* C13. A pick flow that restored a snapshot has ended (the command returned,
\* or the pick screen went back to the main menu) with HEAD on the primary
\* branch, not detached.
C13_PickEndsOnBranch ==
    ("restored" \in ses.log /\ pc \in {"done", "main"}) => ~repo.detached

\* C14. Whenever the main menu is shown at session start, after a successful
\* push or after a pull, and the working tree holds uncommitted profile
\* changes, the change-set the session offers for push is not empty.
C14_PendingChangesOffered ==
    (/\ pc = "main"
     /\ "tui_started" \in ses.log \/ ses.ok \/ "imported" \in ses.log
     /\ repo.wt # HeadTree(repo.head)) =>
        exported # <<>>

\* C15. At most one long-running operation (push worker, pull-load worker,
\* pull-import worker, restore worker) is in flight at any time.
C15_OneWorkerAtATime ==
    InFlight <= 1

\* C16. No flow runs a second push command after a push command of the flow
\* has failed.
C16_NoSilentRetry ==
    "push_retried" \notin ses.log

\* C17. A scan neither reports nor copies a file of a configured directory
\* whose content is identical to the repository file of the same relative
\* path, and a file that differs from it (or has none) is reported.
C17_HashEquality ==
    [][MirrorScan =>
          \A i \in 1..Len(cfgDirs), p \in Rels :
             dirs[cfgDirs[i]][p] # 0 =>
                IF repo.wt[p] # 0 /\ SameHash(dirs[cfgDirs[i]][p], repo.wt[p])
                THEN \A k \in 1..Len(exported') :
                        exported'[k].src # <<cfgDirs[i], p>>
                ELSE \E k \in 1..Len(exported') : exported'[k].dst = p
      ]_vars

\* C18. The change-set a scan returns never holds two entries with the same
\* destination path.
C18_UniqueDestinations ==
    (ses.mode = "mirror" /\ ses.cont \in {"scan", "scan2", "rescan"}) =>
        \A k, l \in 1..Len(exported) :
            exported[k].dst = exported[l].dst => k = l

\* C19. Every JSON file in the mirror lies below a profile-type directory:
\* the scan creates no file directly under profiles/<profile-set-key>/.
C19_TypedLayout ==
    \A p \in Rels : repo.wt[p] # 0 => Len(p) >= 2

\* The repository tree an import step reads, and the paths it was asked to
\* import: the selected profiles of the pull screen, the tree of the version
\* picked on the version screen, the working tree a command ends with.
ImportSource ==
    CASE pc = "pull_work" -> repo.wt
      [] pc = "pick_work" -> GitCheckoutCommit(repo, ses.offer[ses.sel[1]]).r.wt
      [] OTHER -> repo.wt'

ImportAsked ==
    IF pc = "pull_work"
    THEN {ses.offer[ses.sel[i]].rel : i \in 1..Len(ses.sel)}
    ELSE Rels

\* C20. A step that imports changes only the first configured directory:
\* there, every requested file the repository tree holds gets the
\* repository's content, and every other file (one the tree does not hold
\* included) stays as it was; no other directory changes.
C20_ImportFrame ==
    [][(dirs' # dirs /\ ~EditFile) =>
          dirs' = [dirs EXCEPT ![cfgDirs[1]] =
                      [p \in Rels |->
                          IF p \in ImportAsked /\ ImportSource[p] # 0
                          THEN ImportSource[p]
                          ELSE dirs[cfgDirs[1]][p]]]
      ]_vars

\* An import has run; the first configured directory holds a file the
\* repository tree does not hold next to one it took from the tree, and the
\* other directory does not have that file's content.
C20_Witness ==
    /\ "imported" \in ses.log
    /\ \E p, q \in Rels :
          /\ dirs[cfgDirs[1]][p] # 0
          /\ repo.wt[p] = 0
          /\ repo.wt[q] # 0
          /\ dirs[cfgDirs[1]][q] = repo.wt[q]
          /\ dirs[cfgDirs[2]][q] # repo.wt[q]

\* C21. A pull command that calls git_pull_rebase on a clean working tree
\* whose HEAD is behind the server's head and has nothing the server lacks,
\* the fetch succeeding, ends without a conflict and with HEAD equal to the
\* server's head.
C21_PullCatchesUp ==
    (/\ ses.mode = "cli" /\ pc = "done"
     /\ "pull_rebase" \in ses.log /\ "push_rebase" \notin ses.log
     /\ "fetch_failed" \notin ses.log
     /\ ses.pre # <<>>
     /\ ses.pre[1] # remote /\ IsAncestor(ses.pre[1], remote)
     /\ ses.pre[2] = HeadTree(ses.pre[1])) =>
        /\ repo.head = remote
        /\ "rebase_stopped" \notin ses.log
        /\ ~repo.rb.active

\* C22. The version list of the pick flow holds every commit of the branch
\* but the bootstrap commit, newest first, and the commit checked out for
\* choice i is the i-th of the list.
C22_PickListComplete ==
    /\ pc \in {"ask_pick", "pick_sel"} =>
           ses.offer = PickList([repo EXCEPT !.head = repo.tip])
    /\ pc = "ask_return" => repo.head = ses.offer[ses.sel[1]]

\* C23. A command run with --action never waits for input: no prompt of the
\* push, pull, pick or full-sync flow is reached.
C23_NoPromptWithAction ==
    ses.mode = "cli" =>
        pc \notin {"ask_diverged", "ask_discard", "ask_pick", "ask_return",
                   "ask_open", "ask_edit", "ask_mark"}

\* C24. A command that ends has exit status 0, 1, 2 or 130, and status 2
\* when it ended because the configuration is missing.
C24_ExitStatus ==
    (ses.mode = "cli" /\ pc = "done") =>
        /\ ses.result \in {0, 1, 2, 130}
        /\ "no_config" \in ses.log => ses.result = 2

\* C25. In the pull checklist an entry is checked at first exactly when the
\* first configured directory has no such file or has it with a content
\* other than the repository's.
C25_PullDefaultSelection ==
    pc = "pull_sel" =>
        \A i \in 1..Len(ses.offer) :
            ses.offer[i].checked <=>
                \/ dirs[cfgDirs[1]][ses.offer[i].rel] = 0
                \/ dirs[cfgDirs[1]][ses.offer[i].rel] # repo.wt[ses.offer[i].rel]

\* The checklist shows a checked and an unchecked entry, and the unchecked
\* one is not what the other configured directory holds.
C25_Witness ==
    /\ pc = "pull_sel"
    /\ \E i, j \in 1..Len(ses.offer) :
          /\ ses.offer[i].checked
          /\ ~ses.offer[j].checked
          /\ dirs[cfgDirs[2]][ses.offer[j].rel] # repo.wt[ses.offer[j].rel]

\* C26. The worker a confirmation starts is given a selection that is not
\* empty and works on the entries checked in the list the screen showed: the
\* entries the push worker takes from the app's change-set are the listed
\* ones, and a commit it makes changes its parent's tree at no path but the
\* destinations of the checked entries.
C26_AppliesSelection ==
    /\ pc \in {"push_work", "pull_work"} => ses.sel # <<>>
    /\ pc = "push_work" =>
          \A i \in 1..Len(ses.sel) :
              /\ ses.sel[i] <= Len(exported)
              /\ exported[ses.sel[i]] = ses.scan[ses.sel[i]]
    /\ pc = "pull_work" =>
          \A i \in 1..Len(ses.sel) : ses.sel[i] <= Len(ses.offer)
    /\ (pc = "push_after" /\ "committed" \in ses.log) =>
          LET h == ses.pre[1]
              new == HeadTree(h)
              old == HeadTree(SubSeq(h, 1, Len(h) - 1))
          IN \A p \in Rels :
                new[p] # old[p] =>
                   \E i \in 1..Len(ses.sel) : ses.scan[ses.sel[i]].dst = p

\* C27. The conflict-resolution step is never called with nothing to
\* resolve: when it is entered after a rebase that failed (the fetch before
\* it having succeeded), the list of conflicted paths is not empty.
C27_ResolutionHasConflicts ==
    "fetch_failed" \notin ses.log => "no_conflicted_files" \notin ses.log

\* The last call of git_pull_rebase in a pull flow is all the flow has done
\* to the clone: the command has ended, or the pull screen shows its list.
PullRebaseJustCalled ==
    /\ "pull_rebase" \in ses.log
    /\ "push_rebase" \notin ses.log
    /\ "fetch_failed" \notin ses.log
    /\ \/ ses.mode = "cli" /\ pc = "done"
       \/ ses.mode = "tui" /\ pc = "pull_sel"

\* C28. A call of git_pull_rebase made when origin/main does not exist, or
\* when HEAD is the server's head, runs no rebase and leaves HEAD and the
\* working tree as they were.
C28_PullRebaseNoOp ==
    (/\ PullRebaseJustCalled
     /\ \/ repo.primary # "main"
        \/ remote = <<>>
        \/ ses.pre[1] = remote) =>
        /\ repo.head = ses.pre[1]
        /\ repo.wt = ses.pre[2]
        /\ "rebased" \notin ses.log
        /\ "rebase_stopped" \notin ses.log

\* A pull on a master clone whose server has a commit the clone lacks.
C28_Witness ==
    /\ PullRebaseJustCalled
    /\ repo.primary = "master"
    /\ remote # <<>>
    /\ ses.pre[1] # remote
    /\ IsAncestor(ses.pre[1], remote)

\* C29. After a call of git_pull_rebase the stash stack holds the entries it
\* held before the call; and when the call returned, every uncommitted
\* change to a tracked file that the working tree had before the call is in
\* the working tree again.
C29_StashRestored ==
    (ses.mode = "git" /\ pc = "done") =>
        /\ repo.stash = ses.pre[3]
        /\ ses.ok =>
              \A p \in Rels :
                  (/\ HeadTree(ses.pre[1])[p] # 0
                   /\ ses.pre[2][p] # HeadTree(ses.pre[1])[p]) =>
                      repo.wt[p] = ses.pre[2][p]

\* C30. The Range action on a highlighted item: with no anchor set it makes
\* that item the anchor and changes no selection; with an anchor set it
\* adds every item from the anchor to the highlighted item, both included,
\* to the selection, changes the selection of no other item, deselects
\* nothing, and clears the anchor.
C30_RangeSelection ==
    [][(ActionRangeSelect /\ ses.list.highlighted # NoIndex) =>
          IF ses.list.anchor = NoIndex
          THEN /\ ses'.list.anchor = ses.list.highlighted
               /\ ses'.list.selected = ses.list.selected
          ELSE /\ ses'.list.anchor = NoIndex
               /\ \A i \in Items(ses.list) :
                     i \in ses'.list.selected <=>
                        \/ i \in ses.list.selected
                        \/ /\ Min2(ses.list.anchor, ses.list.highlighted) <= i
                           /\ i <= Max2(ses.list.anchor, ses.list.highlighted)]_vars

\* A range of two or more items was selected and an item outside it stayed
\* unselected.
C30_Witness ==
    /\ pc = "select"
    /\ "range_selected" \in ses.log
    /\ ses.list.anchor = NoIndex
    /\ Cardinality(ses.list.selected) >= 2
    /\ ses.list.selected # Items(ses.list)

\* The steps of the pull flow and of the pick flow: the command line with
\* --action pull or pick, the prompts of do_pull_import and
\* do_pick_version_import, the conflict resolution called by do_pull_import,
\* and the PullScreen and PickVersionScreen of the app.
PullOrPickStep ==
    \/ /\ pc = "idle"
       /\ \E a \in {"pull", "pick"}, net \in Net : Starts(CmdSyncAction(World, a, net))
    \/ AnswerDiscard
    \/ AnswerPick
    \/ AnswerReturn
    \/ ses.cont = "pull" /\ (AnswerOpen \/ AnswerEdit \/ AnswerMark)
    \/ PullLoad
    \/ PullConfirm
    \/ PullWorker
    \/ PickLoad
    \/ PickSelect
    \/ RestoreWorker

\* C31. No step of the pull flow or of the pick flow runs a push command or
\* changes the server's branch: what the clone has and the server has not
\* (the bootstrap commit of a first initialization included) stays local.
C31_PullNeverPushes ==
    [][PullOrPickStep =>
          /\ remote' = remote
          /\ "push_cmd" \in ses'.log => "push_cmd" \in ses.log]_vars

\* A pull imported while the clone held commits the server has not.
C31_Witness ==
    /\ pc = "done"
    /\ ses.mode = "cli"
    /\ "imported" \in ses.log
    /\ "push_rebase" \notin ses.log
    /\ ~IsAncestor(repo.tip, remote)

\* The copy of p in the last configured directory that holds p; 0 when no
\* configured directory holds p.
RECURSIVE LastCopy(_, _, _)
LastCopy(ds, fs, p) ==
    IF ds = <<>> THEN 0
    ELSE IF fs[ds[Len(ds)]][p] # 0 THEN fs[ds[Len(ds)]][p]
    ELSE LastCopy(SubSeq(ds, 1, Len(ds) - 1), fs, p)

\* C32. When a scan returns, the repository holds a JSON file exactly at
\* the relative paths some configured directory holds one at, each repository
\* file is the copy of the last configured directory holding that path, and
\* the configured directories are as they were.
C32_ScanMirrorsSources ==
    [][MirrorScan =>
          /\ dirs' = dirs
          /\ \A p \in Rels : repo'.wt[p] = LastCopy(cfgDirs, dirs, p)]_vars

\* A scan has run over two directories that hold different copies of a file.
C32_Witness ==
    /\ pc = "idle"
    /\ ses.mode = "mirror"
    /\ ses.cont = "scan"
    /\ Len(cfgDirs) = 2
    /\ \E p \in Rels :
          /\ dirs[cfgDirs[1]][p] # 0
          /\ dirs[cfgDirs[2]][p] # 0
          /\ dirs[cfgDirs[1]][p] # dirs[cfgDirs[2]][p]
          /\ repo.wt[p] = dirs[cfgDirs[2]][p]

\* No configured directory holds a profile.
NoLocalProfiles == \A i \in 1..Len(cfgDirs), p \in Rels : dirs[cfgDirs[i]][p] = 0

\* The change-set ex is one deletion entry for each path of S and no more.
DeletionsOf(S, ex) ==
    /\ Len(ex) = Cardinality(S)
    /\ \A k \in 1..Len(ex) : ex[k].src = None /\ ex[k].dst \in S
    /\ \A p \in S : \E k \in 1..Len(ex) : ex[k].dst = p

\* profilesync sync --action push
CliSyncPush ==
    /\ pc = "idle"
    /\ \E net \in Net : Starts(CmdSyncAction(World, "push", net))

\* C33. With no profile in the configured directories, the scan at the start
\* of a session removes every profile of the working tree and its change-set
\* is one deletion entry for each of them; a push of that whole change-set
\* which reports the save leaves the server's tip without the profiles that
\* were checked out.
C33_EmptySourceDeletes ==
    [][/\ ((TuiStart \/ CliSyncPush) /\ NoLocalProfiles) =>
             /\ DeletionsOf({p \in Rels : repo.wt[p] # 0}, exported')
             /\ pc' = "main" => repo'.wt = EmptyTree
       /\ (CliSyncPush /\ NoLocalProfiles /\ pc' = "done" /\ "saved" \in ses'.log) =>
             \A p \in Rels :
                 (repo.wt[p] # 0 /\ HeadTree(repo.head)[p] # 0) =>
                     HeadTree(remote')[p] = 0
       /\ (/\ PushWorker /\ NoLocalProfiles
           /\ Len(ses.sel) = Len(ses.scan)
           /\ "saved" \in ses'.log) =>
             \A k \in 1..Len(ses.scan) :
                 (ses.scan[k].src = None /\ HeadTree(repo.head)[ses.scan[k].dst] # 0) =>
                     HeadTree(remote')[ses.scan[k].dst] = 0]_vars

\* A push has saved the removal of the profiles the clone had checked out
\* while the configured directory held none.
C33_Witness ==
    /\ pc = "done"
    /\ ses.mode = "cli"
    /\ {"committed", "saved"} \subseteq ses.log
    /\ \A i \in 1..Len(cfgDirs), p \in Rels : ses.dirs0[cfgDirs[i]][p] = 0
    /\ exported # <<>>
    /\ \A k \in 1..Len(exported) : exported[k].src = None
    /\ HeadTree(remote) = EmptyTree
    /\ Len(remote) >= 3

\* C34. When no configured directory is on disk, or none is configured, the
\* scan leaves no profile in the working tree and its change-set is one
\* deletion entry for each profile that was checked out.
C34_MissingSourceIsEmpty ==
    (/\ ses.mode = "scan" /\ pc = "done"
     /\ \A i \in 1..Len(cfgDirs) : ~DirExists(dirs, cfgDirs[i])) =>
        /\ repo.wt = EmptyTree
        /\ DeletionsOf({p \in Rels : HeadTree(repo.head)[p] # 0}, exported)

\* The scan ran with its one configured directory not on disk.
C34_Witness ==
    /\ ses.mode = "scan" /\ pc = "done"
    /\ cfgDirs = <<MissingDir>>
    /\ HeadTree(repo.head) # EmptyTree
    /\ repo.wt = EmptyTree
    /\ exported # <<>>

\* C35. When the pull worker of the app has imported the selected profiles,
\* every listed profile that was not selected and that no configured
\* directory holds is gone from the working tree and is a deletion entry of
\* the session's change-set; and a push of a whole change-set which reports
\* the save leaves the server's tip without the committed files that its
\* deletion entries name and the working tree no longer holds.
C35_UnimportedBecomesDeletion ==
    [][/\ PullWorker =>
             \A i \in 1..Len(ses.offer) :
                 (/\ \A j \in 1..Len(ses.sel) : ses.sel[j] # i
                  /\ \A d \in 1..Len(cfgDirs) : dirs[cfgDirs[d]][ses.offer[i].rel] = 0) =>
                     /\ repo'.wt[ses.offer[i].rel] = 0
                     /\ \E k \in 1..Len(exported') :
                           exported'[k] = [src |-> None, dst |-> ses.offer[i].rel]
       /\ (PushWorker /\ Len(ses.sel) = Len(ses.scan) /\ "saved" \in ses'.log) =>
             \A k \in 1..Len(ses.scan) :
                 (/\ ses.scan[k].src = None
                  /\ repo.wt[ses.scan[k].dst] = 0
                  /\ HeadTree(repo.head)[ses.scan[k].dst] # 0) =>
                     HeadTree(remote')[ses.scan[k].dst] = 0]_vars

\* A pull imported one of two listed profiles; the other one, which the
\* configured directory does not hold, is a deletion entry.
C35_Witness ==
    /\ pc = "main"
    /\ ses.mode = "tui"
    /\ "imported" \in ses.log
    /\ Len(ses.sel) < Len(ses.offer)
    /\ \E i \in 1..Len(ses.offer) :
          /\ \A j \in 1..Len(ses.sel) : ses.sel[j] # i
          /\ HeadTree(repo.head)[ses.offer[i].rel] # 0
          /\ repo.wt[ses.offer[i].rel] = 0
          /\ \E k \in 1..Len(exported) :
                exported[k] = [src |-> None, dst |-> ses.offer[i].rel]

\* C36. When a push step reports that the changes were saved to the server,
\* the server's branch tip is local HEAD.
C36_SavedMeansOnServer ==
    [][("saved" \in ses'.log /\ "saved" \notin ses.log) => remote' = repo'.head]_vars

\* C37. In the app, a menu choice made while the session's change-set is
\* empty opens no push screen and changes neither the clone nor the server,
\* whatever the clone has that the server has not; and the server's branch
\* changes in the app only by a push worker that was started from a
\* non-empty change-set.
C37_EmptyChangeSetNoPush ==
    [][/\ (MainMenu /\ exported = <<>>) =>
             /\ repo' = repo
             /\ remote' = remote
             /\ pc' \in {"main", "pull_load", "pick_load"}
       /\ (ses.mode = "tui" /\ remote' # remote) =>
             /\ pc = "push_work"
             /\ ses.scan # <<>>]_vars

\* Push was chosen on an empty change-set while the clone held a saved
\* version the server has not.
C37_Witness ==
    /\ pc = "main"
    /\ "nothing_to_push" \in ses.log
    /\ exported = <<>>
    /\ repo.head # remote
    /\ IsAncestor(remote, repo.head)
    /\ ~repo.head[Len(repo.head)].boot

\* The push phase of the flow ended with its success report.
PushSucceeded == "saved" \in ses.log \/ "already_synced" \in ses.log

\* C38. In full sync the pull phase runs exactly when the push phase
\* succeeded: on the command line a full sync that ends without its pull
\* phase ends with a failure status, and the pull phase follows only a push
\* phase that reported success, never one the user cancelled at the
\* divergence prompt; in the app the PullScreen of a full sync follows only a
\* push worker that reported success.
C38_PullOnlyAfterPush ==
    /\ (ses.mode = "cli" /\ pc = "done" /\ ses.thenPull) => ses.result # 0
    /\ (ses.mode = "cli" /\ "pull_phase" \in ses.log) =>
          /\ PushSucceeded
          /\ "warned_diverged" \in ses.log => "confirmed_diverged" \in ses.log
    /\ (ses.mode = "tui" /\ ses.thenPull /\ pc \in {"pull_load", "pull_sel", "pull_work"}) =>
          ses.ok /\ PushSucceeded

\* C39. The completion of a worker pops the screen that started the worker
\* and no other: after Back during the worker's run the main screen stays on
\* the stack.
C39_WorkerPopsOwnScreen ==
    [][(/\ ExtraDone
        /\ pc = "main"
        /\ \A i \in 1..Len(extra) : extra[i].kind \in {"push_work", "pull_work", "pick_work"}) =>
           pc' # "blank"]_vars

====
